---- MODULE Spec2Model ----
(***************************************************************************)
(* A model of xgql's connection resolvers (configuration.Revisions and     *)
(* configurationRevisionStatus.Objects), of the ReferenceID codec and of   *)
(* the model constructors / GetKubernetesResource classifier.              *)
(*                                                                         *)
(* Go strings that the code takes apart (strings.Split, base64) are        *)
(* sequences: of bytes for the codec, of symbols for API versions.  A Go   *)
(* pointer that may be nil is a sequence of length 0 or 1.                 *)
(***************************************************************************)
EXTENDS Integers, Sequences, FiniteSets, TLC

(***************************************************************************)
(* Bounds of the model.                                                    *)
(***************************************************************************)
MaxCandidates == 3      \* longest backend list / ObjectRefs list
MaxLimit == 2           \* largest limit argument
MinLimit == 2           \* the most negative limit argument is -MinLimit
MaxFieldLen == 1        \* longest field of a ReferenceID handed to String
MaxTokenLen == 5        \* longest raw token handed to ParseReferenceID

VARIABLES
    \* ---- resolvers (src/unnamed/part_000) ----
    op,         \* which resolver runs: "Revisions" or "Objects"
    limit,      \* the limit *int argument: <<>> is nil, <<n>> points to n
    active,     \* the active *bool argument: <<>> is nil, <<b>> points to b
    parentUID,  \* obj.Metadata.UID of the parent Configuration
    cands,      \* Revisions: in.Items as the backend lists them; Objects: obj.ObjectRefs
    pc,         \* position of the call: "start", "list", "loop", "done"
    idx,        \* 1-based index of the loop's next candidate
    out,        \* the connection under construction: [Count, Items]
    ret,        \* what the call returned: [conn, err]; conn <<>> is a nil connection
    modeled,    \* names of the candidates handed to a model.Get* constructor, in order
    fetched,    \* names of the candidates fetched with c.Get, in order
    \* ---- ReferenceID codec (src/internal/graph/model/common.go) ----
    cmode,      \* "id": a ReferenceID is marshalled, then parsed; "raw": any value is parsed
    cid,        \* the ReferenceID handed to String
    cv,         \* the value handed to UnmarshalGQL: [isString, s]
    crecvIn,    \* the receiver of UnmarshalGQL before the call
    crecv,      \* the receiver of UnmarshalGQL
    cres,       \* what ParseReferenceID returned: [id, err]
    cerr,       \* what UnmarshalGQL returned: the chain of wrapped messages, <<>> is nil
    cpc,        \* "new", "token", "parsed", "unmarshalled"
    \* ---- model constructors and classifier (common.go, composite.go) ----
    kfn,        \* the function called
    ku,         \* the object it is called with
    kres,       \* what it returned: [shape, ID, err]
    kpc         \* "new", "done"

rvars == <<op, limit, active, parentUID, cands, pc, idx, out, ret, modeled, fetched>>
cvars == <<cmode, cid, cv, crecvIn, crecv, cres, cerr, cpc>>
kvars == <<kfn, ku, kres, kpc>>
vars == <<rvars, cvars, kvars>>

Nil == <<>>
Ptr(x) == <<x>>
Deref(p) == p[1]

(***************************************************************************)
(* Helpers on sequences.                                                   *)
(***************************************************************************)
SeqsUpTo(S, n) == UNION {[1..k -> S] : k \in 0..n}

Min(a, b) == IF a < b THEN a ELSE b

(***************************************************************************)
(* strings.Split(s, sep) for a one-element separator: the parts of s       *)
(* between separators; always at least one part.                           *)
(***************************************************************************)
RECURSIVE SplitFrom(_, _, _, _)
SplitFrom(s, sep, k, cur) ==
    IF k > Len(s) THEN <<cur>>
    ELSE IF s[k] = sep THEN <<cur>> \o SplitFrom(s, sep, k + 1, <<>>)
    ELSE SplitFrom(s, sep, k + 1, Append(cur, s[k]))

Split(s, sep) == SplitFrom(s, sep, 1, <<>>)

(***************************************************************************)
(* The resolvers' inputs.                                                  *)
(***************************************************************************)
UIDs == {"uid-p", "uid-q"}
PackageRevisionActive == "Active"
DesiredStates == {PackageRevisionActive, "Inactive"}

\* A listed ConfigurationRevision: its controller reference (nil or a UID)
\* and spec.desiredState.  Its name is its position in the list.
RevisionShapes == [ctrl : {Nil} \cup {Ptr(u) : u \in UIDs}, desired : DesiredStates]

\* extv1.Group, extv1.CompositeResourceDefinitionKind, extv1.CompositionKind
Group == <<"apiextensions.crossplane.io">>
CompositeResourceDefinitionKind == "CompositeResourceDefinition"
CompositionKind == "Composition"

APIVersions ==
    { <<"apiextensions.crossplane.io", "/", "v1">>,
      <<"apiextensions.crossplane.io">>,
      <<"pkg.crossplane.io", "/", "v1">>,
      <<"v1">> }
RefKinds == {CompositeResourceDefinitionKind, CompositionKind, "Function"}
RefShapes == [APIVersion : APIVersions, Kind : RefKinds]

Named(shapes) == [k \in 1..Len(shapes) |-> [name |-> k, shape |-> shapes[k]]]

Limits == {Nil} \cup {Ptr(n) : n \in (0 - MinLimit)..MaxLimit}
Actives == {Nil, Ptr(TRUE), Ptr(FALSE)}

\* pointer.BoolPtrDerefOr(p, def)
BoolPtrDerefOr(p, def) == IF p = Nil THEN def ELSE Deref(p)

EmptyConnection == [Count |-> 0, Items |-> <<>>]
NoReturn == [conn |-> Nil, err |-> "pending"]

(***************************************************************************)
(* Init: a call of one of the two resolvers with its arguments, and the    *)
(* objects the backend holds.                                              *)
(***************************************************************************)
InitResolvers ==
    /\ op \in {"Revisions", "Objects"}
    /\ limit \in Limits
    /\ \/ /\ op = "Revisions"
          /\ active \in Actives
          /\ parentUID \in UIDs
          /\ cands \in {Named(s) : s \in SeqsUpTo(RevisionShapes, MaxCandidates)}
       \/ /\ op = "Objects"
          /\ active = Nil
          /\ parentUID = "uid-p"
          /\ cands \in {Named(s) : s \in SeqsUpTo(RefShapes, MaxCandidates)}
    /\ pc = "start"
    /\ idx = 1
    /\ out = EmptyConnection
    /\ ret = NoReturn
    /\ modeled = <<>>
    /\ fetched = <<>>

\* Mutant of Fail: the connection built so far is returned with the error.
Fail_Partial(msg) ==
    /\ ret' = [conn |-> Ptr(out), err |-> msg]
    /\ pc' = "done"

Fail(msg) ==
    /\ ret' = [conn |-> Nil, err |-> msg]
    /\ pc' = "done"

(***************************************************************************)
(* r.clients.Get(t): both resolvers start by getting a client.             *)
(***************************************************************************)
GetClient ==
    /\ pc = "start"
    /\ \/ /\ Fail("cannot get client")
          /\ UNCHANGED out
       \/ /\ op = "Revisions"
          /\ pc' = "list"
          /\ UNCHANGED <<out, ret>>
       \/ /\ op = "Objects"
          /\ pc' = "loop"
          /\ out' = EmptyConnection
          /\ UNCHANGED ret
    /\ UNCHANGED <<op, limit, active, parentUID, cands, idx, modeled, fetched>>
    /\ UNCHANGED <<cvars, kvars>>

(***************************************************************************)
(* c.List(ctx, in) and the allocation of out.                              *)
(***************************************************************************)
ListRevisions ==
    /\ pc = "list"
    /\ op = "Revisions"
    /\ \/ /\ Fail("cannot list configurations")
          /\ UNCHANGED out
       \/ /\ pc' = "loop"
          /\ out' = EmptyConnection
          /\ UNCHANGED ret
    /\ UNCHANGED <<op, limit, active, parentUID, cands, idx, modeled, fetched>>
    /\ UNCHANGED <<cvars, kvars>>

\* Mutant of NotOurs: any controller reference counts, the UID is not compared.
NotOurs_NilOnly(cr) == cr.shape.ctrl = Nil

\* metav1.GetControllerOf(&cr) == nil || c.UID != obj.Metadata.UID
NotOurs(cr) == cr.shape.ctrl = Nil \/ Deref(cr.shape.ctrl) /= parentUID

\* active is set and true, and this is not the active revision
NotWanted(cr) ==
    BoolPtrDerefOr(active, FALSE) /\ cr.shape.desired /= PackageRevisionActive

\* Mutant of OverLimit: off by one, <= for <.
OverLimit_OffByOne(count) == limit /= Nil /\ Deref(limit) <= count

\* Mutant of OverLimit: a negative limit is taken for no limit.
OverLimit_NegativeIsUnset(count) ==
    limit /= Nil /\ Deref(limit) >= 0 /\ Deref(limit) < count

\* limit != nil && *limit < out.Count, with out.Count as just incremented
OverLimit(count) == limit /= Nil /\ Deref(limit) < count

\* Mutant of AppendItem: the item is put in front.
AppendItem_Prepend(items, i) == <<i>> \o items

\* out.Items = append(out.Items, i)
AppendItem(items, i) == Append(items, i)

(***************************************************************************)
(* One iteration of the loop of Revisions.                                 *)
(***************************************************************************)
RevisionsStep ==
    /\ pc = "loop"
    /\ op = "Revisions"
    /\ idx <= Len(cands)
    /\ LET cr == cands[idx] IN
       IF NotOurs(cr) \/ NotWanted(cr)
       THEN /\ idx' = idx + 1
            /\ UNCHANGED <<out, ret, pc, modeled>>
       ELSE IF OverLimit(out.Count + 1)
       THEN /\ out' = [out EXCEPT !.Count = out.Count + 1]
            /\ idx' = idx + 1
            /\ UNCHANGED <<ret, pc, modeled>>
       ELSE /\ modeled' = Append(modeled, cr.name)
            /\ \/ \* model.GetConfigurationRevision fails
                  /\ Fail("cannot model configuration revision")
                  /\ out' = [out EXCEPT !.Count = out.Count + 1]
                  /\ UNCHANGED idx
               \/ /\ out' = [Count |-> out.Count + 1,
                             Items |-> AppendItem(out.Items, cr.name)]
                  /\ idx' = idx + 1
                  /\ UNCHANGED <<ret, pc>>
    /\ UNCHANGED <<op, limit, active, parentUID, cands, fetched>>
    /\ UNCHANGED <<cvars, kvars>>

\* strings.Split(ref.APIVersion, "/")[0] != extv1.Group
NotInGroup(ref) == Split(ref.shape.APIVersion, "/")[1] /= Group

(***************************************************************************)
(* One iteration of the loop of Objects.                                   *)
(***************************************************************************)
ObjectsStep ==
    /\ pc = "loop"
    /\ op = "Objects"
    /\ idx <= Len(cands)
    /\ LET ref == cands[idx] IN
       IF NotInGroup(ref)
       THEN /\ idx' = idx + 1
            /\ UNCHANGED <<out, ret, pc, modeled, fetched>>
       ELSE IF OverLimit(out.Count + 1)
       THEN /\ out' = [out EXCEPT !.Count = out.Count + 1]
            /\ idx' = idx + 1
            /\ UNCHANGED <<ret, pc, modeled, fetched>>
       ELSE IF ref.shape.Kind \in {CompositeResourceDefinitionKind, CompositionKind}
       THEN /\ fetched' = Append(fetched, ref.name)
            /\ \/ \* c.Get fails
                  /\ Fail(IF ref.shape.Kind = CompositeResourceDefinitionKind
                          THEN "cannot get CompositeResourceDefinition"
                          ELSE "cannot get Composition")
                  /\ out' = [out EXCEPT !.Count = out.Count + 1]
                  /\ UNCHANGED <<idx, modeled>>
               \/ \* the model constructor fails
                  /\ modeled' = Append(modeled, ref.name)
                  /\ Fail(IF ref.shape.Kind = CompositeResourceDefinitionKind
                          THEN "cannot model composite resource definition"
                          ELSE "cannot model composition")
                  /\ out' = [out EXCEPT !.Count = out.Count + 1]
                  /\ UNCHANGED idx
               \/ /\ modeled' = Append(modeled, ref.name)
                  /\ out' = [Count |-> out.Count + 1,
                             Items |-> AppendItem(out.Items, ref.name)]
                  /\ idx' = idx + 1
                  /\ UNCHANGED <<ret, pc>>
       ELSE \* no case of the switch on ref.Kind matches
            /\ out' = [out EXCEPT !.Count = out.Count + 1]
            /\ idx' = idx + 1
            /\ UNCHANGED <<ret, pc, modeled, fetched>>
    /\ UNCHANGED <<op, limit, active, parentUID, cands>>
    /\ UNCHANGED <<cvars, kvars>>

(***************************************************************************)
(* return out, nil                                                         *)
(***************************************************************************)
Return ==
    /\ pc = "loop"
    /\ idx > Len(cands)
    /\ ret' = [conn |-> Ptr(out), err |-> "nil"]
    /\ pc' = "done"
    /\ UNCHANGED <<op, limit, active, parentUID, cands, idx, out, modeled, fetched>>
    /\ UNCHANGED <<cvars, kvars>>


NextResolvers == GetClient \/ ListRevisions \/ RevisionsStep \/ ObjectsStep \/ Return

(***************************************************************************)
(* The ReferenceID codec.  A string is the sequence of its bytes.          *)
(***************************************************************************)
\* const sep = "|"
sep == 124

errDecode == "cannot decode id"
errMalformed == "malformed id"
errParse == "cannot parse id"
errType == "id must be a string"

\* base64.RawStdEncoding: the standard alphabet, no padding.
Enc6(i) ==
    IF i < 26 THEN 65 + i
    ELSE IF i < 52 THEN 97 + (i - 26)
    ELSE IF i < 62 THEN 48 + (i - 52)
    ELSE IF i = 62 THEN 43
    ELSE 47

\* the decode map of the alphabet; -1 is a byte outside the alphabet
Dec6(c) ==
    IF c \in 65..90 THEN c - 65
    ELSE IF c \in 97..122 THEN c - 97 + 26
    ELSE IF c \in 48..57 THEN c - 48 + 52
    ELSE IF c = 43 THEN 62
    ELSE IF c = 47 THEN 63
    ELSE -1

RECURSIVE EncodeFrom(_, _)
EncodeFrom(src, k) ==
    LET n == Len(src) - k + 1 IN
    IF n <= 0 THEN <<>>
    ELSE IF n >= 3 THEN
        LET val == src[k] * 65536 + src[k + 1] * 256 + src[k + 2] IN
        <<Enc6(val \div 262144), Enc6((val \div 4096) % 64),
          Enc6((val \div 64) % 64), Enc6(val % 64)>> \o EncodeFrom(src, k + 3)
    ELSE IF n = 2 THEN
        LET val == src[k] * 65536 + src[k + 1] * 256 IN
        <<Enc6(val \div 262144), Enc6((val \div 4096) % 64), Enc6((val \div 64) % 64)>>
    ELSE
        LET val == src[k] * 65536 IN
        <<Enc6(val \div 262144), Enc6((val \div 4096) % 64)>>

\* Mutant of EncodeToString: the padded encoding (base64.StdEncoding).
EncodeToString_Padded(src) ==
    LET e == EncodeFrom(src, 1) IN
    e \o [k \in 1..((4 - (Len(e) % 4)) % 4) |-> 61]

\* encoder.EncodeToString
EncodeToString(src) == EncodeFrom(src, 1)

\* the bytes of a quantum of 2, 3 or 4 six-bit digits
QuantumBytes(dbuf) ==
    LET d(j) == IF j <= Len(dbuf) THEN dbuf[j] ELSE 0
        val == d(1) * 262144 + d(2) * 4096 + d(3) * 64 + d(4)
        b == <<val \div 65536, (val \div 256) % 256, val % 256>>
    IN  SubSeq(b, 1, Len(dbuf) - 1)

RECURSIVE DecodeFrom(_, _, _)
\* [err, bytes]: the decoder reads s from position k with the digits dbuf of
\* the current quantum; \r and \n are skipped, any other byte outside the
\* alphabet (the padding character too) and a last quantum of one digit are
\* corrupt input; the spare bits of a last quantum are not checked.
DecodeFrom(s, k, dbuf) ==
    IF k > Len(s) THEN
        IF Len(dbuf) = 0 THEN [err |-> FALSE, bytes |-> <<>>]
        ELSE IF Len(dbuf) = 1 THEN [err |-> TRUE, bytes |-> <<>>]
        ELSE [err |-> FALSE, bytes |-> QuantumBytes(dbuf)]
    ELSE IF Dec6(s[k]) >= 0 THEN
        LET d == Append(dbuf, Dec6(s[k])) IN
        IF Len(d) = 4
        THEN LET rest == DecodeFrom(s, k + 1, <<>>) IN
             [err |-> rest.err, bytes |-> QuantumBytes(d) \o rest.bytes]
        ELSE DecodeFrom(s, k + 1, d)
    ELSE IF s[k] \in {10, 13} THEN DecodeFrom(s, k + 1, dbuf)
    ELSE [err |-> TRUE, bytes |-> <<>>]

\* encoder.DecodeString
DecodeString(s) == DecodeFrom(s, 1, <<>>)

ZeroReferenceID == [APIVersion |-> <<>>, Kind |-> <<>>, Namespace |-> <<>>, Name |-> <<>>]

\* Mutant of ParseReferenceID: only too few parts are malformed.
ParseReferenceID_AtLeastFour(id) ==
    LET d == DecodeString(id) IN
    IF d.err THEN [id |-> ZeroReferenceID, err |-> errDecode]
    ELSE LET parts == Split(d.bytes, sep) IN
         IF Len(parts) < 4 THEN [id |-> ZeroReferenceID, err |-> errMalformed]
         ELSE [id |-> [APIVersion |-> parts[1], Kind |-> parts[2],
                       Namespace |-> parts[3], Name |-> parts[4]],
               err |-> "nil"]

ParseReferenceID(id) ==
    LET d == DecodeString(id) IN
    IF d.err THEN [id |-> ZeroReferenceID, err |-> errDecode]
    ELSE LET parts == Split(d.bytes, sep) IN
         IF Len(parts) /= 4 THEN [id |-> ZeroReferenceID, err |-> errMalformed]
         ELSE [id |-> [APIVersion |-> parts[1], Kind |-> parts[2],
                       Namespace |-> parts[3], Name |-> parts[4]],
               err |-> "nil"]

\* (id *ReferenceID) String()
String(id) ==
    EncodeToString(id.APIVersion \o <<sep>> \o id.Kind \o <<sep>>
                   \o id.Namespace \o <<sep>> \o id.Name)

\* (id *ReferenceID) UnmarshalGQL(v): [recv, err], the receiver after the
\* call and the chain of wrapped error messages (<<>> is a nil error)
UnmarshalGQL(recv, v) ==
    IF ~v.isString THEN [recv |-> recv, err |-> <<errType>>]
    ELSE LET in == ParseReferenceID(v.s) IN
         IF in.err /= "nil" THEN [recv |-> recv, err |-> <<errParse, in.err>>]
         ELSE [recv |-> in.id, err |-> <<>>]

\* the bytes '|', 'a' and 'b' make the fields of the ReferenceIDs marshalled
FieldBytes == {sep, 97, 98}
Fields == SeqsUpTo(FieldBytes, MaxFieldLen)
ReferenceIDs == [APIVersion : Fields, Kind : Fields, Namespace : Fields, Name : Fields]

\* the bytes of raw tokens: 'f', 'H', 'x', '8' ("fHx8" encodes "|||"), the
\* padding character '=' and a new line
TokenBytes == {102, 72, 120, 56, 61, 10}
Values ==
    {[isString |-> TRUE, s |-> t] : t \in SeqsUpTo(TokenBytes, MaxTokenLen)}
    \cup {[isString |-> FALSE, s |-> <<>>]}

Receivers ==
    {ZeroReferenceID,
     [APIVersion |-> <<97>>, Kind |-> <<97>>, Namespace |-> <<>>, Name |-> <<97>>]}

InitCodec ==
    /\ cmode \in {"id", "raw"}
    /\ \/ /\ cmode = "id"
          /\ cid \in ReferenceIDs
          /\ cv = [isString |-> TRUE, s |-> <<>>]
          /\ cpc = "new"
       \/ /\ cmode = "raw"
          /\ cid = ZeroReferenceID
          /\ cv \in Values
          /\ cpc = "token"
    /\ crecvIn \in Receivers
    /\ crecv = crecvIn
    /\ cres = [id |-> ZeroReferenceID, err |-> "pending"]
    /\ cerr = <<"pending">>

\* the ReferenceID is marshalled to its token
MarshalString ==
    /\ cpc = "new"
    /\ cv' = [isString |-> TRUE, s |-> String(cid)]
    /\ cpc' = "token"
    /\ UNCHANGED <<cmode, cid, crecvIn, crecv, cres, cerr>>
    /\ UNCHANGED <<rvars, kvars>>

\* ParseReferenceID is called with the token
Parse ==
    /\ cpc = "token"
    /\ cv.isString
    /\ cres' = ParseReferenceID(cv.s)
    /\ cpc' = "parsed"
    /\ UNCHANGED <<cmode, cid, cv, crecvIn, crecv, cerr>>
    /\ UNCHANGED <<rvars, kvars>>

\* UnmarshalGQL is called with the value
Unmarshal ==
    /\ cpc = "token"
    /\ LET r == UnmarshalGQL(crecv, cv) IN
        /\ crecv' = r.recv
        /\ cerr' = r.err
    /\ cpc' = "unmarshalled"
    /\ UNCHANGED <<cmode, cid, cv, crecvIn, cres>>
    /\ UNCHANGED <<rvars, kvars>>

NextCodec == MarshalString \/ Parse \/ Unmarshal

(***************************************************************************)
(* The model constructors and GetKubernetesResource.  Here a string is an  *)
(* atom: the code only copies and compares these strings.  An error is the *)
(* chain of its wrapped messages, outermost first; <<>> is a nil error.    *)
(***************************************************************************)
PkgAPIVersion == "pkg.crossplane.io/v1"
ExtAPIVersion == "apiextensions.crossplane.io/v1"

ProviderGroupVersionKind == [apiVersion |-> PkgAPIVersion, kind |-> "Provider"]
ProviderRevisionGroupVersionKind == [apiVersion |-> PkgAPIVersion, kind |-> "ProviderRevision"]
ConfigurationGroupVersionKind == [apiVersion |-> PkgAPIVersion, kind |-> "Configuration"]
ConfigurationRevisionGroupVersionKind ==
    [apiVersion |-> PkgAPIVersion, kind |-> "ConfigurationRevision"]
CompositeResourceDefinitionGroupVersionKind ==
    [apiVersion |-> ExtAPIVersion, kind |-> CompositeResourceDefinitionKind]

\* An object: its identity, what the three shape heuristics of
\* internal/unstructured answer for it, whether the structural conversion to
\* the typed shape of its kind succeeds, and whether json.Marshal succeeds.
Objects ==
    [apiVersion : {PkgAPIVersion, ExtAPIVersion, "example.org/v1"},
     kind : {"Provider", "ProviderRevision", "Configuration", "ConfigurationRevision",
             CompositeResourceDefinitionKind, "Widget"},
     namespace : {"", "ns"},
     name : {"x", "y"},
     managed : BOOLEAN,
     providerConfig : BOOLEAN,
     composite : BOOLEAN,
     convertible : BOOLEAN,
     marshals : BOOLEAN]

ProbablyManaged(u) == u.managed
ProbablyProviderConfig(u) == u.providerConfig
ProbablyComposite(u) == u.composite

\* u.GroupVersionKind()
GroupVersionKind(u) == [apiVersion |-> u.apiVersion, kind |-> u.kind]

ZeroID == [APIVersion |-> "", Kind |-> "", Namespace |-> "", Name |-> ""]

\* errors.Wrap(err, msg): nil stays nil
Wrap(res, msg) == IF res.err = <<>> THEN res ELSE [res EXCEPT !.err = <<msg>> \o res.err]

\* the ID every constructor but GetCompositeResource builds
ObjectID(u, namespace) ==
    [APIVersion |-> u.apiVersion, Kind |-> u.kind, Namespace |-> namespace, Name |-> u.name]

GetGenericResource(u) ==
    IF ~u.marshals
    THEN [shape |-> "GenericResource", ID |-> ZeroID, err |-> <<"cannot marshal JSON">>]
    ELSE [shape |-> "GenericResource", ID |-> ObjectID(u, u.namespace), err |-> <<>>]

GetSecret(s) ==
    IF ~s.marshals
    THEN [shape |-> "Secret", ID |-> ZeroID, err |-> <<"cannot marshal JSON">>]
    ELSE [shape |-> "Secret", ID |-> ObjectID(s, s.namespace), err |-> <<>>]

\* the ID literal sets no Namespace
GetCustomResourceDefinition(crd) ==
    IF ~crd.marshals
    THEN [shape |-> "CustomResourceDefinition", ID |-> ZeroID,
          err |-> <<"cannot marshal JSON">>]
    ELSE [shape |-> "CustomResourceDefinition", ID |-> ObjectID(crd, ""), err |-> <<>>]

\* the CompositeResource literal sets no ID
GetCompositeResource(u) ==
    IF ~u.marshals
    THEN [shape |-> "CompositeResource", ID |-> ZeroID, err |-> <<"cannot marshal JSON">>]
    ELSE [shape |-> "CompositeResource", ID |-> ZeroID, err |-> <<>>]

\* The constructors of the other shapes (GetManagedResource, GetProviderConfig,
\* GetProvider, GetProviderRevision, GetConfiguration, GetConfigurationRevision,
\* GetCompositeResourceDefinition): a record of the shape carrying the object's
\* ReferenceID, or an error.
GetTyped(shape, u) ==
    IF ~u.marshals
    THEN [shape |-> shape, ID |-> ZeroID, err |-> <<"cannot marshal JSON">>]
    ELSE [shape |-> shape, ID |-> ObjectID(u, u.namespace), err |-> <<>>]

\* convert(from, to) succeeds
Converts(u) == u.convertible

\* an exact-match case: convert, then model
ExactCase(u, shape, convertMsg, modelMsg) ==
    IF ~Converts(u)
    THEN [shape |-> "nil", ID |-> ZeroID,
          err |-> <<convertMsg, "could not convert unstructured object">>]
    ELSE Wrap(GetTyped(shape, u), modelMsg)

\* Mutant of Dispatch: the exact matches are tried before the heuristics.
Dispatch_ExactFirst(u) ==
    IF GroupVersionKind(u) = ProviderGroupVersionKind THEN "Provider"
    ELSE IF GroupVersionKind(u) = ProviderRevisionGroupVersionKind THEN "ProviderRevision"
    ELSE IF GroupVersionKind(u) = ConfigurationGroupVersionKind THEN "Configuration"
    ELSE IF GroupVersionKind(u) = ConfigurationRevisionGroupVersionKind
         THEN "ConfigurationRevision"
    ELSE IF GroupVersionKind(u) = CompositeResourceDefinitionGroupVersionKind
         THEN "CompositeResourceDefinition"
    ELSE IF ProbablyManaged(u) THEN "ManagedResource"
    ELSE IF ProbablyProviderConfig(u) THEN "ProviderConfig"
    ELSE IF ProbablyComposite(u) THEN "CompositeResource"
    ELSE "GenericResource"

\* the case of the switch that is taken: the first whose condition holds
Dispatch(u) ==
    IF ProbablyManaged(u) THEN "ManagedResource"
    ELSE IF ProbablyProviderConfig(u) THEN "ProviderConfig"
    ELSE IF ProbablyComposite(u) THEN "CompositeResource"
    ELSE IF GroupVersionKind(u) = ProviderGroupVersionKind THEN "Provider"
    ELSE IF GroupVersionKind(u) = ProviderRevisionGroupVersionKind THEN "ProviderRevision"
    ELSE IF GroupVersionKind(u) = ConfigurationGroupVersionKind THEN "Configuration"
    ELSE IF GroupVersionKind(u) = ConfigurationRevisionGroupVersionKind
         THEN "ConfigurationRevision"
    ELSE IF GroupVersionKind(u) = CompositeResourceDefinitionGroupVersionKind
         THEN "CompositeResourceDefinition"
    ELSE "GenericResource"

GetKubernetesResource(u) ==
    LET c == Dispatch(u) IN
    CASE c = "ManagedResource" ->
            Wrap(GetTyped("ManagedResource", u), "cannot model managed resource")
      [] c = "ProviderConfig" ->
            Wrap(GetTyped("ProviderConfig", u), "cannot model provider config")
      [] c = "CompositeResource" ->
            Wrap(GetCompositeResource(u), "cannot model composite resource")
      [] c = "Provider" ->
            ExactCase(u, c, "cannot convert provider", "cannot model provider")
      [] c = "ProviderRevision" ->
            ExactCase(u, c, "cannot convert provider revision",
                      "cannot model provider revision")
      [] c = "Configuration" ->
            ExactCase(u, c, "cannot convert configuration", "cannot model configuration")
      [] c = "ConfigurationRevision" ->
            ExactCase(u, c, "cannot convert configuration revision",
                      "cannot model configuration revision")
      [] c = "CompositeResourceDefinition" ->
            ExactCase(u, c, "cannot convert composite resource definition",
                      "cannot model composite resource definition")
      [] OTHER -> Wrap(GetGenericResource(u), "cannot model generic resource")

Functions ==
    {"GetKubernetesResource", "GetCompositeResource", "GetGenericResource", "GetSecret",
     "GetCustomResourceDefinition"}

\* Secrets are core/v1 Secret objects; CustomResourceDefinitions are cluster
\* scoped, so they have no namespace.
InitModel ==
    /\ kfn \in Functions
    /\ ku \in Objects
    /\ kfn = "GetCustomResourceDefinition" => ku.namespace = ""
    /\ kres = [shape |-> "pending", ID |-> ZeroID, err |-> <<"pending">>]
    /\ kpc = "new"

Returns(res) ==
    /\ kres' = res
    /\ kpc' = "done"
    /\ UNCHANGED <<kfn, ku>>
    /\ UNCHANGED <<rvars, cvars>>

CallGetKubernetesResource ==
    kpc = "new" /\ kfn = "GetKubernetesResource" /\ Returns(GetKubernetesResource(ku))

CallGetCompositeResource ==
    kpc = "new" /\ kfn = "GetCompositeResource" /\ Returns(GetCompositeResource(ku))

CallGetGenericResource ==
    kpc = "new" /\ kfn = "GetGenericResource" /\ Returns(GetGenericResource(ku))

CallGetSecret ==
    kpc = "new" /\ kfn = "GetSecret" /\ Returns(GetSecret(ku))

CallGetCustomResourceDefinition ==
    /\ kpc = "new"
    /\ kfn = "GetCustomResourceDefinition"
    /\ Returns(GetCustomResourceDefinition(ku))

NextModel ==
    \/ CallGetKubernetesResource
    \/ CallGetCompositeResource
    \/ CallGetGenericResource
    \/ CallGetSecret
    \/ CallGetCustomResourceDefinition

(***************************************************************************)
(* The three specifications: each runs one part and leaves the others idle.*)
(***************************************************************************)
IdleResolvers ==
    /\ op = "idle" /\ limit = Nil /\ active = Nil /\ parentUID = "uid-p"
    /\ cands = <<>> /\ pc = "idle" /\ idx = 1 /\ out = EmptyConnection
    /\ ret = NoReturn /\ modeled = <<>> /\ fetched = <<>>

IdleCodec ==
    /\ cmode = "idle" /\ cid = ZeroReferenceID /\ cv = [isString |-> FALSE, s |-> <<>>]
    /\ crecvIn = ZeroReferenceID /\ crecv = ZeroReferenceID
    /\ cres = [id |-> ZeroReferenceID, err |-> "pending"]
    /\ cerr = <<"pending">> /\ cpc = "idle"

IdleModel ==
    /\ kfn = "idle" /\ ku = <<>> /\ kpc = "idle"
    /\ kres = [shape |-> "pending", ID |-> ZeroID, err |-> <<"pending">>]

Init == InitResolvers /\ IdleCodec /\ IdleModel
Next == NextResolvers
Spec == Init /\ [][Next]_vars

CodecInit == IdleResolvers /\ InitCodec /\ IdleModel
SpecCodec == CodecInit /\ [][NextCodec]_vars

ModelInit == IdleResolvers /\ IdleCodec /\ InitModel
SpecModel == ModelInit /\ [][NextModel]_vars

(***************************************************************************)
(* Properties of the resolvers (checked under Spec).                       *)
(***************************************************************************)
\* the two filters of Revisions, as the schema documents them: the candidate
\* has a controller reference whose UID is the parent's and, when active is
\* true, its desired state is Active
PassesFilters(cr) ==
    /\ cr.shape.ctrl /= <<>>
    /\ cr.shape.ctrl[1] = parentUID
    /\ (active = <<TRUE>> => cr.shape.desired = "Active")

\* the filter of Objects: the reference's API group is apiextensions.crossplane.io
InGroup(ref) == ref.shape.APIVersion[1] = "apiextensions.crossplane.io"

Survivors ==
    IF op = "Revisions" THEN SelectSeq(cands, PassesFilters) ELSE SelectSeq(cands, InGroup)

Succeeded(o) == op = o /\ pc = "done" /\ ret.err = "nil"
Returned == ret.conn[1]

\* C1: when Revisions succeeds, the returned Count is the number of listed
\* revisions that pass both filters, whatever the limit.
C1_CountIsNumberPassingFilters ==
    Succeeded("Revisions") => ret.conn /= Nil /\ Returned.Count = Len(Survivors)

C1_Witness ==
    /\ Succeeded("Revisions")
    /\ limit = <<1>>
    /\ active = <<TRUE>>
    /\ Len(cands) = 3
    /\ Returned.Count = 2

\* C2: when Revisions succeeds, len(Items) is min(Count, limit) for a limit
\* >= 0 and Count for no limit.
C2_ItemsLenIsMinCountLimit ==
    Succeeded("Revisions") =>
        /\ limit = Nil => Len(Returned.Items) = Returned.Count
        /\ (limit /= Nil /\ limit[1] >= 0) =>
               Len(Returned.Items) = Min(Returned.Count, limit[1])

C2_Witness ==
    /\ Succeeded("Revisions")
    /\ limit = <<2>>
    /\ Returned.Count = 3
    /\ Len(Returned.Items) = 2

\* C3: when Revisions succeeds, Items is the models of the first len(Items)
\* candidates that pass both filters, in the order of the backend list.
C3_ItemsAreFirstSurvivorsInOrder ==
    Succeeded("Revisions") =>
        /\ Len(Returned.Items) <= Len(Survivors)
        /\ \A k \in 1..Len(Returned.Items) : Returned.Items[k] = Survivors[k].name

C3_Witness ==
    /\ Succeeded("Revisions")
    /\ Len(cands) = 3
    /\ Returned.Items = <<1, 3>>

ItemErrors ==
    {"cannot model configuration revision",
     "cannot get CompositeResourceDefinition", "cannot model composite resource definition",
     "cannot get Composition", "cannot model composition"}

\* C4: fail-fast.  A call in which fetching or modelling a candidate failed
\* returns an error and a nil connection; a returned connection holds every
\* candidate that was handed to a constructor.
C4_FailFast ==
    pc = "done" =>
        /\ ret.err \in ItemErrors => ret.conn = Nil
        /\ ret.conn /= Nil => ret.err = "nil" /\ Returned.Items = modeled
        /\ ret.err = "nil" => ret.conn /= Nil

C4_Witness ==
    /\ pc = "done"
    /\ op = "Revisions"
    /\ ret.err = "cannot model configuration revision"
    /\ Len(out.Items) = 1
    /\ Len(modeled) = 2
    /\ ret.conn = Nil

\* C5: when Objects succeeds with no limit, Count = len(Items), for object
\* references of any API group and any kind.
C5_ObjectsUnlimitedCountIsLen ==
    (Succeeded("Objects") /\ limit = Nil) => Returned.Count = Len(Returned.Items)

\* C6: with a negative limit no candidate is fetched or modelled and no item
\* is collected; the call fails only for want of a client or of the list, and
\* when it succeeds it returns no items and the full Count.
C6_NegativeLimit ==
    (limit /= Nil /\ limit[1] < 0) =>
        /\ modeled = <<>>
        /\ fetched = <<>>
        /\ out.Items = <<>>
        /\ pc = "done" =>
              /\ ret.err \in {"nil", "cannot get client", "cannot list configurations"}
              /\ ret.err = "nil" =>
                    /\ ret.conn /= Nil
                    /\ Returned.Items = <<>>
                    /\ Returned.Count = Len(Survivors)

C6_Witness ==
    /\ Succeeded("Objects")
    /\ limit = <<-1>>
    /\ Returned.Count = 2
    /\ Returned.Items = <<>>

(***************************************************************************)
(* Properties of the codec (checked under SpecCodec).                      *)
(***************************************************************************)
CleanField(f) == \A k \in 1..Len(f) : f[k] /= 124
Clean(id) ==
    CleanField(id.APIVersion) /\ CleanField(id.Kind) /\ CleanField(id.Namespace)
    /\ CleanField(id.Name)
CleanIDs == {id \in ReferenceIDs : Clean(id)}
\* no two ReferenceIDs without '|' have the same String
StringIsInjective == Cardinality({String(id) : id \in CleanIDs}) = Cardinality(CleanIDs)

\* C7: a ReferenceID with no '|' in its fields parses back from its String to
\* itself, and no other such ReferenceID has the same String.
C7_RoundTrip ==
    (cmode = "id" /\ Clean(cid)) =>
        /\ cpc = "parsed" => cres = [id |-> cid, err |-> "nil"]
        /\ cpc = "unmarshalled" => cerr = <<>> /\ crecv = cid
        /\ cpc = "token" => cv.s = String(cid) /\ StringIsInjective

C7_Witness ==
    /\ cmode = "id"
    /\ cpc = "parsed"
    /\ cid = [APIVersion |-> <<97>>, Kind |-> <<98>>, Namespace |-> <<>>, Name |-> <<97>>]
    /\ cres.id = cid

\* the standard base64 alphabet
Base64Bytes == (65..90) \cup (97..122) \cup (48..57) \cup {43, 47}
IsNotNewLine(c) == c \notin {10, 13}

\* unpadded base64 as encoding/base64 reads it: \r and \n apart, only bytes
\* of the alphabet, and not one digit left over after the groups of four
ValidBase64(t) ==
    LET c == SelectSeq(t, IsNotNewLine) IN
    /\ \A k \in 1..Len(c) : c[k] \in Base64Bytes
    /\ Len(c) % 4 /= 1

SepCount(b) == Cardinality({k \in 1..Len(b) : b[k] = 124})

ExpectedParseError(t) ==
    IF ~ValidBase64(t) THEN "cannot decode id"
    ELSE IF SepCount(DecodeString(t).bytes) /= 3 THEN "malformed id"
    ELSE "nil"

\* C8: ParseReferenceID fails with "cannot decode id" on a token that is not
\* unpadded base64 and with "malformed id" on one whose payload has not
\* exactly 4 parts, as the String of every ReferenceID with a '|' in a field
\* has; UnmarshalGQL leaves its receiver as it was whenever it fails.
C8_BadTokensFail ==
    /\ cpc = "parsed" =>
          /\ cres.err = ExpectedParseError(cv.s)
          /\ cres.err /= "nil" => cres.id = ZeroReferenceID
          /\ (cmode = "id" /\ ~Clean(cid)) => cres.err = "malformed id"
    /\ cpc = "unmarshalled" =>
          /\ cerr /= <<>> => crecv = crecvIn
          /\ ~cv.isString => cerr = <<"id must be a string">>
          /\ cv.isString =>
                cerr = IF ExpectedParseError(cv.s) = "nil" THEN <<>>
                       ELSE <<"cannot parse id", ExpectedParseError(cv.s)>>

C8_Witness ==
    /\ cpc = "unmarshalled"
    /\ cmode = "id"
    /\ ~Clean(cid)
    /\ cerr = <<"cannot parse id", "malformed id">>
    /\ crecvIn /= ZeroReferenceID
    /\ crecv = crecvIn

(***************************************************************************)
(* Properties of the constructors and classifier (checked under SpecModel).*)
(***************************************************************************)
NoHeuristic(u) == ~u.managed /\ ~u.providerConfig /\ ~u.composite
ExactKind(u) ==
    \/ u.apiVersion = "pkg.crossplane.io/v1"
       /\ u.kind \in {"Provider", "ProviderRevision", "Configuration", "ConfigurationRevision"}
    \/ u.apiVersion = "apiextensions.crossplane.io/v1"
       /\ u.kind = "CompositeResourceDefinition"

\* C9: GetKubernetesResource takes the first rule that matches, in the order
\* managed, provider config, composite, exact kind, generic; a failed
\* conversion of an exact kind is an error and no GenericResource.
C9_FirstMatchWins ==
    (kpc = "done" /\ kfn = "GetKubernetesResource") =>
        /\ ku.managed => kres.shape = "ManagedResource"
        /\ (~ku.managed /\ ku.providerConfig) => kres.shape = "ProviderConfig"
        /\ (~ku.managed /\ ~ku.providerConfig /\ ku.composite) =>
               kres.shape = "CompositeResource"
        /\ (NoHeuristic(ku) /\ ExactKind(ku) /\ ku.convertible) => kres.shape = ku.kind
        /\ (NoHeuristic(ku) /\ ExactKind(ku) /\ ~ku.convertible) =>
               /\ kres.shape = "nil"
               /\ Len(kres.err) = 2
               /\ kres.err[2] = "could not convert unstructured object"
        /\ kres.shape = "GenericResource" <=> (NoHeuristic(ku) /\ ~ExactKind(ku))

C9_Witness ==
    /\ kpc = "done"
    /\ kfn = "GetKubernetesResource"
    /\ ku.managed
    /\ ku.apiVersion = "pkg.crossplane.io/v1"
    /\ ku.kind = "Provider"
    /\ kres.shape = "ManagedResource"
    /\ kres.err = <<>>

\* C10: every record that GetCompositeResource, GetGenericResource, GetSecret
\* or GetCustomResourceDefinition returns carries the ReferenceID of its
\* object: its apiVersion, kind, namespace and name.
C10_RecordCarriesReferenceID ==
    ( /\ kpc = "done"
      /\ kres.err = <<>>
      /\ kres.shape \in {"CompositeResource", "GenericResource", "Secret",
                          "CustomResourceDefinition"} ) =>
        kres.ID = [APIVersion |-> ku.apiVersion, Kind |-> ku.kind,
                   Namespace |-> ku.namespace, Name |-> ku.name]

====
